---- MODULE Spec2Model ----
\* Enki (src/src/enki.h): the test case engine TestCase<T> (add / run / pass /
\* fail / get_data), the assertion primitives of class Assert, and the
\* exception-based outcome signal that connects them.
EXTENDS Integers, Sequences, FiniteSets, TLC

\* ------------------------------------------------------------------ bounds
MaxTests   == 2   \* add() calls per test case
MaxElapsed == 2   \* ticks a test body may take (at least 1)
MaxBody    == 2   \* statements in a generated test body
MaxFunc    == 1   \* statements in a procedure handed to assert_exception
MaxLen     == 2   \* elements of an array handed to an array assertion
MaxVal     == 2   \* largest element value (elements are 0..MaxVal)
MaxExports == 2   \* export calls on one exporter

\* ------------------------------------------------- the outcome signal
\* How an invocation ends: it returns, or it throws one of the two signal
\* exceptions, or it throws any other exception.
Returned == "returned"
TestFailedException == "TestFailedException"
TestPassedException == "TestPassedException"
OtherException == "std::exception"

\* TestCase::pass() and TestCase::fail(): throw, never return.
pass == TestPassedException
fail == TestFailedException

\* Assert::assert(condition): throws TestFailedException unless condition.
assert(condition) == IF ~condition THEN TestFailedException ELSE Returned

\* ------------------------------------------------- test bodies
\* A test body (a member function of the test case subclass) is a sequence of
\* statements. A statement is a call of pass(), of fail(), of
\* Assert::assert(c) with c a value computed at run time, a throw of some
\* other exception, or a call of Assert::assert_exception(func) with func a
\* procedure made of the first four kinds.
FuncOps == {"pass", "fail", "assert", "throw"}

RECURSIVE SeqsUpTo(_, _)
SeqsUpTo(S, n) ==
  IF n = 0 THEN {<<>>}
  ELSE LET shorter == SeqsUpTo(S, n - 1)
       IN  shorter \cup {Append(q, x) : q \in shorter, x \in S}

Funcs == SeqsUpTo(FuncOps, MaxFunc)

Stmt(op, func) == [op |-> op, func |-> func]

Stmts == {Stmt(op, <<>>) : op \in FuncOps}
         \cup {Stmt("assert_exception", f) : f \in Funcs}

Bodies == SeqsUpTo(Stmts, MaxBody)

\* One simple statement, with cond the run-time value of an asserted condition.
ExecOp(op, cond) ==
  CASE op = "pass"   -> pass
    [] op = "fail"   -> fail
    [] op = "assert" -> assert(cond)
    [] op = "throw"  -> OtherException

\* func(): the statements in order until one throws.
RECURSIVE ExecFunc(_, _)
ExecFunc(func, cond) ==
  IF func = <<>> THEN Returned
  ELSE LET r == ExecOp(Head(func), cond)
       IN  IF r = Returned THEN ExecFunc(Tail(func), cond) ELSE r

\* Variant: the handler rethrows what it caught (catch(...) { throw; }).
CatchAllRethrow(thrown) == thrown

\* The handler of assert_exception: catch(...) { throw TestFailedException(); }
CatchAll(thrown) == TestFailedException

\* Assert::assert_exception(func): try { func(); } catch(...) { throw ... }.
\* out is how the call ends, calls how many times func was invoked.
assert_exception(func, cond) ==
  LET r == ExecFunc(func, cond)
  IN  [out |-> IF r = Returned THEN Returned ELSE CatchAll(r), calls |-> 1]

\* One statement of a test body.
ExecStmt(s, cond) ==
  IF s.op = "assert_exception"
  THEN assert_exception(s.func, cond)
  ELSE [out |-> ExecOp(s.op, cond), calls |-> 0]

\* (cls->*func)(): the body's statements in order until one throws. out is how
\* the invocation ends, reached how many statements were started, calls how
\* many times a procedure handed to assert_exception was invoked.
RECURSIVE ExecBody(_, _)
ExecBody(body, cond) ==
  IF body = <<>> THEN [out |-> Returned, reached |-> 0, calls |-> 0]
  ELSE LET r == ExecStmt(Head(body), cond)
       IN  IF r.out = Returned
           THEN LET rest == ExecBody(Tail(body), cond)
                IN  [out |-> rest.out, reached |-> rest.reached + 1,
                     calls |-> rest.calls + r.calls]
           ELSE [out |-> r.out, reached |-> 1, calls |-> r.calls]

\* The test procedures of the sample test cases, and a few more.
testEmpty    == <<>>
testPass     == <<Stmt("pass", <<>>)>>
testFailed   == <<Stmt("fail", <<>>)>>
test_assert  == <<Stmt("assert", <<>>)>>
testPassFail == <<Stmt("pass", <<>>), Stmt("fail", <<>>)>>
testThrow    == <<Stmt("throw", <<>>)>>
test_assert_exception == <<Stmt("assert_exception", <<"throw">>)>>

\* The procedures a test case registers.
TestFuncs == {testEmpty, testPass, testFailed, test_assert, testPassFail,
              testThrow}
Names == {"a", "b"}

\* ------------------------------------------------- state
VARIABLES
  data,         \* TestCase::data, the list of TestData records
  pc,           \* where run() is: "idle" (never called), "loop" (inside), "done"
                \* (run() returned), "aborted" (an exception left run())
  it,           \* the iterator of run()'s loop, as a 1-based index
  err,          \* run()'s local err
  ret,          \* what the last run() returned
  ranBefore,    \* whether run() was called before the current call
  started,      \* whether run() was called at all
  added,        \* the add() calls so far, in order
  addedAfter,   \* the add() calls since the loop of the last run() was left
                \* (since construction when run() was never called)
  log,          \* the test invocations of the current run(), in order
  setupCalls,   \* setup() calls of the current run()
  cleanupCalls, \* cleanup() calls of the current run()
  call,         \* a call of an array assertion: its arguments and how it ended
  exporter,     \* the result exporter object
  sink,         \* the lines written to the exporter's stream, in order
  lastOp        \* the last operation on the exporter and how it ended

engineVars == <<data, pc, it, err, ret, ranBefore, started, added, addedAfter, log,
               setupCalls, cleanupCalls>>
nonEngineVars == <<call, exporter, sink, lastOp>>
vars == <<engineVars, nonEngineVars>>

TestData == [func : Bodies \cup TestFuncs, name : Names, passed : BOOLEAN,
             time : 0..MaxElapsed]

\* ------------------------------------------------- operations
\* Variant: the record is pushed at the front of the list.
PushFront(list, test, name) ==
  <<[func |-> test, name |-> name, passed |-> FALSE, time |-> 0]>> \o list

\* Variant: the new record starts as passed.
PushBackPassed(list, test, name) ==
  Append(list, [func |-> test, name |-> name, passed |-> TRUE, time |-> 0])

\* add(): data.push_back({test, name, false, 0.0}).
PushBack(list, test, name) ==
  Append(list, [func |-> test, name |-> name, passed |-> FALSE, time |-> 0])

\* add() is public and has no guard: it is called outside run(), or from
\* setup(), a test body or cleanup() while run() is in progress. A call from
\* setup() is made before it = data.begin(), as a call before run() is. A call
\* from the body of the test at it is made while pc = "loop" and it is on a
\* record: push_back leaves the list iterator valid and the loop reaches the
\* new record. A call from cleanup() is made after the loop was left, as a
\* call after run() is: no invocation follows it in that run.
Add(test, name) ==
  /\ pc = "loop" => it <= Len(data)
  /\ Len(data) < MaxTests
  /\ data' = PushBack(data, test, name)
  /\ added' = Append(added, [func |-> test, name |-> name])
  /\ addedAfter' = IF pc = "loop" THEN addedAfter ELSE addedAfter + 1
  /\ UNCHANGED <<pc, it, err, ret, ranBefore, started, log, setupCalls, cleanupCalls>>
  /\ UNCHANGED nonEngineVars

\* run() up to the loop: err = false; setup(); it = data.begin(). setup() is
\* called outside any try block, so an exception it throws leaves run().
\* Variant: run() does not call setup().
SetupSkipped(n) == n

\* setup(); at the top of run(), with n the calls made before it.
SetupCalled(n) == n + 1

RunBegin(setupOut) ==
  /\ pc \in {"idle", "done", "aborted"}
  /\ ranBefore' = started
  /\ started' = TRUE
  /\ err' = FALSE
  /\ setupCalls' = SetupCalled(0)
  /\ cleanupCalls' = 0
  /\ log' = <<>>
  /\ it' = 1
  /\ pc' = IF setupOut = Returned THEN "loop" ELSE "aborted"
  /\ addedAfter' = 0
  /\ UNCHANGED <<data, ret, added>>
  /\ UNCHANGED nonEngineVars

\* duration_cast<duration<float>>(t2 - t1).count()
Duration(t1, t2) == t2 - t1

\* The try block after the body returned: time is stored, then passed.
OnReturn(d, t1, t2) == [d EXCEPT !.time = Duration(t1, t2), !.passed = TRUE]

\* catch(enki::TestFailedException e): (*it).passed = false.
CatchFailed(d) == [d EXCEPT !.passed = FALSE]

\* Variant: the handler leaves err as it was.
ErrNotSet(e) == e

\* catch(enki::TestFailedException e): err = true.
ErrAfterFailed(e) == TRUE

\* Variant: the handler of the Passed signal records a failure.
CatchPassedAsFailed(d) == [d EXCEPT !.passed = FALSE]

\* catch(enki::TestPassedException e)
CatchPassed(d) == [d EXCEPT !.passed = TRUE]

\* The record of the test after an invocation that ended with out.
AfterInvocation(d, out, t1, t2) ==
  CASE out = Returned            -> OnReturn(d, t1, t2)
    [] out = TestFailedException -> CatchFailed(d)
    [] out = TestPassedException -> CatchPassed(d)
    [] OTHER                     -> d

\* Variant: no handler for TestFailedException, so it leaves run() too.
NextPcFailedUncaught(out) ==
  IF out \in {OtherException, TestFailedException} THEN "aborted" ELSE "loop"

\* Variant: a catch-all handler, so the loop goes on after any exception.
NextPcCatchAll(out) == "loop"

\* Where the loop goes after an invocation: the next element, or out of run()
\* with the exception no handler caught.
NextPc(out) == IF out = OtherException THEN "aborted" ELSE "loop"

\* high_resolution_clock::now() when the next body is entered: the clock is
\* monotonic, and is read here from the start of the current run().
RECURSIVE Now(_)
Now(l) == IF l = <<>> THEN 0 ELSE l[Len(l)].elapsed + Now(SubSeq(l, 1, Len(l) - 1))

\* One iteration of run()'s loop. cond is the run-time value of the body's
\* asserted conditions and elapsed the time the body takes until it returns
\* or throws.
RunTest(cond, elapsed) ==
  /\ pc = "loop"
  /\ it <= Len(data)
  /\ LET r  == ExecBody(data[it].func, cond)
         t1 == Now(log)
         t2 == t1 + elapsed
     IN  /\ data' = [data EXCEPT ![it] = AfterInvocation(@, r.out, t1, t2)]
         /\ err' = IF r.out = TestFailedException THEN ErrAfterFailed(err) ELSE err
         /\ pc' = NextPc(r.out)
         /\ log' = Append(log, [test |-> it, func |-> data[it].func,
                                setups |-> setupCalls, cond |-> cond,
                                elapsed |-> elapsed, out |-> r.out,
                                reached |-> r.reached, calls |-> r.calls])
  /\ it' = IF pc' = "loop" THEN it + 1 ELSE it
  /\ UNCHANGED <<ret, ranBefore, started, added, addedAfter, setupCalls, cleanupCalls>>
  /\ UNCHANGED nonEngineVars

\* run() after the loop: cleanup(); return err. cleanup() is called outside
\* any try block too.
ReturnValue(e) == e

\* cleanup(); after the loop, with n the calls made before it.
CleanupCalled(n) == n + 1

RunEnd(cleanupOut) ==
  /\ pc = "loop"
  /\ it > Len(data)
  /\ cleanupCalls' = CleanupCalled(cleanupCalls)
  /\ IF cleanupOut = Returned
     THEN pc' = "done" /\ ret' = ReturnValue(err)
     ELSE pc' = "aborted" /\ UNCHANGED ret
  /\ UNCHANGED <<data, it, err, ranBefore, started, added, addedAfter, log, setupCalls>>
  /\ UNCHANGED nonEngineVars

\* Whether the body reads a run-time condition.
RECURSIVE ReadsCond(_)
ReadsCond(body) ==
  /\ body # <<>>
  /\ \/ Head(body).op = "assert"
     \/ \E i \in 1..Len(Head(body).func) : Head(body).func[i] = "assert"
     \/ ReadsCond(Tail(body))

Conds(body) == IF ReadsCond(body) THEN BOOLEAN ELSE {TRUE}

HookOutcomes == {Returned, OtherException}

\* No array assertion is being called.
NoCall == [fn |-> "none", a |-> <<>>, len_a |-> 0, b |-> <<>>, len_b |-> 0,
           min |-> 0, max |-> 0, out |-> "pending", compared |-> 0]

\* No exporter was constructed.
NoExporter == [kind |-> "none", export_time |-> FALSE, open |-> FALSE,
               alive |-> FALSE, ops |-> 0, nocolors |-> FALSE]
NoOp == [op |-> "none", via |-> "none", start |-> 0, calls |-> 0, out |-> Returned]

ExporterInit ==
  /\ exporter = NoExporter
  /\ sink = <<>>
  /\ lastOp = NoOp

\* The parts of the state outside the test case, when unused.
NonEngineInit == call = NoCall /\ ExporterInit

\* A test case after construction: no test registered, run() never called.
EngineInit ==
  /\ data = <<>>
  /\ pc = "idle"
  /\ it = 1
  /\ err = FALSE
  /\ ret = FALSE
  /\ ranBefore = FALSE
  /\ started = FALSE
  /\ added = <<>>
  /\ addedAfter = 0
  /\ log = <<>>
  /\ setupCalls = 0
  /\ cleanupCalls = 0

Init == EngineInit /\ NonEngineInit

Next ==
  \/ \E test \in TestFuncs, name \in Names : Add(test, name)
  \/ \E o \in HookOutcomes : RunBegin(o)
  \/ \E elapsed \in 1..MaxElapsed :
       \E cond \in (IF pc = "loop" /\ it <= Len(data) THEN Conds(data[it].func) ELSE {TRUE}) :
         RunTest(cond, elapsed)
  \/ \E o \in HookOutcomes : RunEnd(o)

Spec == Init /\ [][Next]_vars

\* A test case with one registered test, whose body is any generated body:
\* the state after construction and one add().
InitBody ==
  \E body \in Bodies :
    /\ data = PushBack(<<>>, body, "a")
    /\ added = <<[func |-> body, name |-> "a"]>>
    /\ addedAfter = 1
    /\ pc = "idle"
    /\ it = 1
    /\ err = FALSE
    /\ ret = FALSE
    /\ ranBefore = FALSE
    /\ started = FALSE
    /\ log = <<>>
    /\ setupCalls = 0
    /\ cleanupCalls = 0
    /\ NonEngineInit

NextBody ==
  \/ \E o \in HookOutcomes : RunBegin(o)
  \/ \E elapsed \in 1..MaxElapsed :
       \E cond \in (IF pc = "loop" /\ it <= Len(data) THEN Conds(data[it].func) ELSE {TRUE}) :
         RunTest(cond, elapsed)
  \/ \E o \in HookOutcomes : RunEnd(o)

SpecBody == InitBody /\ [][NextBody]_vars

\* ------------------------------------------------- array assertions
\* An array argument is a buffer and a length; the length handed to an
\* assertion is at most the buffer's size.
Values == 0..MaxVal
Arrays == SeqsUpTo(Values, MaxLen)

\* Variant: the loop stops one element early.
LoopCondShort(t, len) == t < len - 1

\* for(size_t t = 0; t < len_a; t++)
LoopCond(t, len) == t < len

\* The loop of assert_array_equals from index t (0-based, as in the code):
\* the first pair of different elements throws. compared counts the pairs
\* compared.
RECURSIVE EqualsLoop(_, _, _, _)
EqualsLoop(a, b, len, t) ==
  IF ~LoopCond(t, len) THEN [out |-> Returned, compared |-> t]
  ELSE IF a[t + 1] # b[t + 1] THEN [out |-> TestFailedException, compared |-> t + 1]
  ELSE EqualsLoop(a, b, len, t + 1)

\* Assert::assert_array_equals(a, len_a, b, len_b): assert(len_a == len_b),
\* then the loop.
assert_array_equals(a, len_a, b, len_b) ==
  IF assert(len_a = len_b) # Returned
  THEN [out |-> assert(len_a = len_b), compared |-> 0]
  ELSE EqualsLoop(a, b, len_a, 0)

\* Variant: the bounds are exclusive.
OutsideExclusive(x, min, max) == x <= min \/ x >= max

\* arr[t] < min || arr[t] > max
Outside(x, min, max) == x < min \/ x > max

\* The loop of assert_array_subdomain from index t (0-based).
RECURSIVE SubdomainLoop(_, _, _, _, _)
SubdomainLoop(arr, len, min, max, t) ==
  IF ~(t < len) THEN [out |-> Returned, compared |-> t]
  ELSE IF Outside(arr[t + 1], min, max)
       THEN [out |-> TestFailedException, compared |-> t + 1]
       ELSE SubdomainLoop(arr, len, min, max, t + 1)

\* Assert::assert_array_subdomain(arr, len_a, min, max)
assert_array_subdomain(arr, len_a, min, max) == SubdomainLoop(arr, len_a, min, max, 0)

\* A test case is constructed and one array assertion is about to be called
\* with any arguments.
InitAssert ==
  /\ EngineInit
  /\ ExporterInit
  /\ \/ \E a \in Arrays, b \in Arrays :
          \E len_a \in 0..Len(a), len_b \in 0..Len(b) :
            call = [NoCall EXCEPT !.fn = "array_equals", !.a = a, !.len_a = len_a,
                                  !.b = b, !.len_b = len_b]
     \/ \E arr \in Arrays, min \in Values, max \in Values :
          \E len_a \in 0..Len(arr) :
            call = [NoCall EXCEPT !.fn = "array_subdomain", !.a = arr,
                                  !.len_a = len_a, !.min = min, !.max = max]

CallArrayEquals ==
  /\ call.fn = "array_equals"
  /\ call.out = "pending"
  /\ LET r == assert_array_equals(call.a, call.len_a, call.b, call.len_b)
     IN  call' = [call EXCEPT !.out = r.out, !.compared = r.compared]
  /\ UNCHANGED <<engineVars, exporter, sink, lastOp>>

CallArraySubdomain ==
  /\ call.fn = "array_subdomain"
  /\ call.out = "pending"
  /\ LET r == assert_array_subdomain(call.a, call.len_a, call.min, call.max)
     IN  call' = [call EXCEPT !.out = r.out, !.compared = r.compared]
  /\ UNCHANGED <<engineVars, exporter, sink, lastOp>>

NextAssert == CallArrayEquals \/ CallArraySubdomain

SpecAssert == InitAssert /\ [][NextAssert]_vars

\* ------------------------------------------------- result exporters
\* The exporter classes: "text" is TextStreamResultExporter (and
\* ConsoleResultExporter, the same bound to std::cout), "textfile" is
\* TextFileResultExporter, "xml" is XMLStreamResultExporter and "xmlfile" is
\* XMLFileResultExporter.
StreamKinds == {"text", "xml"}
FileKinds == {"textfile", "xmlfile"}
TextKinds == {"text", "textfile"}
XmlKinds == {"xml", "xmlfile"}

\* A line written to the stream. duration holds the duration field when the
\* line has one.
Line(kind, result, duration, name) ==
  [kind |-> kind, result |-> result, duration |-> duration, name |-> name]

\* The header written by the XMLStreamResultExporter constructor.
XmlHeader == <<Line("xml-prologue", "", <<>>, ""), Line("root-open", "", <<>>, "")>>

\* The footer written by the XMLStreamResultExporter destructor.
XmlFooter == <<Line("root-close", "", <<>>, "")>>

\* XMLStreamResultExporter::export_result
XmlTest(d, export_time) ==
  Line("test", IF d.passed THEN "passed" ELSE "failed",
       IF export_time THEN <<d.time>> ELSE <<>>, d.name)

\* The token macros. The build defines them in one of two ways: nocolors is
\* whether ENKI_STYLE_NOCOLORS or __WIN32 is defined.
ENKI_STR_PASSED(nocolors) == IF nocolors THEN "passed" ELSE "PASSED"
ENKI_STR_FAILED(nocolors) == "FAILED"

\* data.passed ? ENKI_STR_PASSED : ENKI_STR_FAILED
TextToken(passed, nocolors) ==
  IF passed THEN ENKI_STR_PASSED(nocolors) ELSE ENKI_STR_FAILED(nocolors)

\* Variant: the duration is written for passed tests only.
TextDurationIfPassed(d, export_time) ==
  IF export_time /\ d.passed THEN <<d.time>> ELSE <<>>

\* if(this->is_duration_exported()) { os.width(8); os << data.time << "s "; }
TextDuration(d, export_time) == IF export_time THEN <<d.time>> ELSE <<>>

\* TextStreamResultExporter::export_result
TextLine(d, export_time, nocolors) ==
  Line("text", TextToken(d.passed, nocolors), TextDuration(d, export_time), d.name)

\* The virtual export_result of an exporter of the given kind. The one of
\* XMLFileResultExporter forwards to its XMLStreamResultExporter.
ExportResultLine(kind, d, export_time, nocolors) ==
  IF kind \in TextKinds THEN TextLine(d, export_time, nocolors)
  ELSE XmlTest(d, export_time)

\* Variant: the default walks the list from the back.
DefaultExportResultsReversed(kind, list, export_time, nocolors) ==
  [i \in 1..Len(list) |->
     ExportResultLine(kind, list[Len(list) + 1 - i], export_time, nocolors)]

\* ResultExporter::export_results, the default: export_result for each
\* element of get_data(), from begin() to end().
DefaultExportResults(kind, list, export_time, nocolors) ==
  [i \in 1..Len(list) |-> ExportResultLine(kind, list[i], export_time, nocolors)]

\* XMLStreamResultExporter::export_results
XmlExportResults(list, export_time) ==
  <<Line("case-open", "", <<>>, "")>>
  \o [i \in 1..Len(list) |-> XmlTest(list[i], export_time)]
  \o <<Line("case-close", "", <<>>, "")>>

\* Which export_results a call runs. XMLStreamResultExporter overrides the
\* one of ResultExporter. XMLFileResultExporter declares
\* export_results(TestCase<T> tcase), by value: it hides the one of
\* ResultExporter for calls on the concrete class and does not override it,
\* so a call through ResultExporter runs the default.
ExportResultsLines(kind, via, list, export_time, nocolors) ==
  CASE kind = "xml" -> XmlExportResults(list, export_time)
    [] kind = "xmlfile" /\ via = "concrete" -> XmlExportResults(list, export_time)
    [] OTHER -> DefaultExportResults(kind, list, export_time, nocolors)

\* operator<< on the stream: a file stream that failed to open drops what is
\* written to it.
Write(s, lines, open) == IF open THEN s \o lines ELSE s

\* How an operation on a stream ends for the caller: std::ofstream keeps the
\* failure in its state bits and throws nothing, and no exporter reads them.
StreamOutcome(open) == Returned

\* The lines that end with std::endl, which flushes the stream; the others
\* end with "\n" and stay in the buffer of a file stream.
EndlKinds == {"text", "test", "root-close"}

\* What a file holds of the lines written to its std::ofstream when the
\* stream is never destroyed: the lines up to the last flush (the output
\* being shorter than the stream's buffer).
RECURSIVE Flushed(_)
Flushed(s) ==
  IF s = <<>> \/ s[Len(s)].kind \in EndlKinds THEN s
  ELSE Flushed(SubSeq(s, 1, Len(s) - 1))

\* The constructors. A file exporter opens fname, which may fail; a stream
\* exporter is handed a stream. nocolors is the build the exporter is
\* compiled in.
Construct(kind, export_time, open, nocolors) ==
  /\ exporter.kind = "none"
  /\ kind \in StreamKinds => open
  /\ exporter' = [kind |-> kind, export_time |-> export_time, open |-> open,
                  alive |-> TRUE, ops |-> 0, nocolors |-> nocolors]
  /\ sink' = Write(sink, IF kind \in XmlKinds THEN XmlHeader ELSE <<>>, open)
  /\ lastOp' = [op |-> "construct", via |-> "concrete", start |-> Len(sink),
                calls |-> 0, out |-> StreamOutcome(open)]
  /\ UNCHANGED <<engineVars, call>>

\* export_results(tcase), called on the concrete class or through a
\* reference to ResultExporter.
ExportResults(via) ==
  /\ exporter.alive
  /\ exporter.ops < MaxExports
  /\ LET lines == ExportResultsLines(exporter.kind, via, data, exporter.export_time,
                                     exporter.nocolors)
     IN  /\ sink' = Write(sink, lines, exporter.open)
         /\ lastOp' = [op |-> "export_results", via |-> via, start |-> Len(sink),
                       calls |-> Cardinality({i \in 1..Len(lines) :
                                               lines[i].kind \in {"test", "text"}}),
                       out |-> StreamOutcome(exporter.open)]
  /\ exporter' = [exporter EXCEPT !.ops = @ + 1]
  /\ UNCHANGED <<engineVars, call>>

\* export_result(data) for one element of get_data().
ExportResult(i) ==
  /\ exporter.alive
  /\ exporter.ops < MaxExports
  /\ i \in 1..Len(data)
  /\ sink' = Write(sink, <<ExportResultLine(exporter.kind, data[i], exporter.export_time,
                                            exporter.nocolors)>>,
                   exporter.open)
  /\ lastOp' = [op |-> "export_result", via |-> "concrete", start |-> Len(sink),
                calls |-> 1, out |-> StreamOutcome(exporter.open)]
  /\ exporter' = [exporter EXCEPT !.ops = @ + 1]
  /\ UNCHANGED <<engineVars, call>>

\* What the destruction of an exporter runs. Destroyed as its own class (a
\* stack object, or delete on the concrete type) the destructor of the class
\* runs. ResultExporter, StreamResultExporter and the text exporters declare
\* no virtual destructor, so delete through a pointer to ResultExporter is
\* undefined behaviour: the destructor of the class runs all the same, or only
\* the one of ResultExporter does and the members are never destroyed.
DestructorRuns(via) == IF via = "concrete" THEN {TRUE} ELSE {TRUE, FALSE}

\* The stream after the destruction. The destructor of
\* XMLStreamResultExporter writes the footer (for XMLFileResultExporter
\* through delete exp) and the one of a file exporter's std::ofstream flushes
\* and closes the file; when they do not run, no footer is written and what
\* was left in the buffer of the file stream is lost.
AfterDestroy(s, kind, open, derived) ==
  IF derived
  THEN Write(s, IF kind \in XmlKinds THEN XmlFooter ELSE <<>>, open)
  ELSE IF kind \in FileKinds THEN Flushed(s) ELSE s

\* The destruction of the exporter, as its own class or through a pointer to
\* ResultExporter.
Destroy(via, derived) ==
  /\ exporter.alive
  /\ derived \in DestructorRuns(via)
  /\ exporter' = [exporter EXCEPT !.alive = FALSE]
  /\ sink' = AfterDestroy(sink, exporter.kind, exporter.open, derived)
  /\ lastOp' = [op |-> "destroy", via |-> via, start |-> Len(sink),
                calls |-> 0, out |-> Returned]
  /\ UNCHANGED <<engineVars, call>>

\* The test procedures of the test cases that are exported, and what a test
\* case registers.
ExportFuncs == {testEmpty, testFailed}
Registrations == [func : ExportFuncs, name : Names]

\* The records after add() for each of regs.
RECURSIVE Registered(_)
Registered(regs) ==
  IF regs = <<>> THEN <<>>
  ELSE PushBack(Registered(SubSeq(regs, 1, Len(regs) - 1)),
                regs[Len(regs)].func, regs[Len(regs)].name)

\* A test case after add() for each of regs and one run() that returned, in
\* which every body took one tick.
InitExport ==
  \E regs \in SeqsUpTo(Registrations, MaxTests) :
    LET n == Len(regs)
        outs == [k \in 1..n |-> ExecBody(regs[k].func, TRUE)]
        failed == \E k \in 1..n : outs[k].out = TestFailedException
    IN  /\ added = regs
        /\ addedAfter = 0
        /\ data = [k \in 1..n |->
                     AfterInvocation(Registered(regs)[k], outs[k].out, k - 1, k)]
        /\ log = [k \in 1..n |->
                    [test |-> k, func |-> regs[k].func, setups |-> SetupCalled(0),
                     cond |-> TRUE, elapsed |-> 1, out |-> outs[k].out,
                     reached |-> outs[k].reached, calls |-> outs[k].calls]]
        /\ pc = "done"
        /\ it = n + 1
        /\ err = failed
        /\ ret = ReturnValue(failed)
        /\ ranBefore = FALSE
        /\ started = TRUE
        /\ setupCalls = SetupCalled(0)
        /\ cleanupCalls = CleanupCalled(0)
        /\ call = NoCall
        /\ ExporterInit

NextExport ==
  \/ \E kind \in StreamKinds \cup FileKinds, export_time \in BOOLEAN, open \in BOOLEAN,
        nocolors \in BOOLEAN :
       Construct(kind, export_time, open, nocolors)
  \/ \E via \in {"concrete", "base"} : ExportResults(via)
  \/ \E i \in 1..MaxTests : ExportResult(i)
  \/ \E via \in {"concrete", "base"}, derived \in BOOLEAN : Destroy(via, derived)

SpecExport == InitExport /\ [][NextExport]_vars

TypeOK ==
  /\ data \in Seq(TestData)
  /\ pc \in {"idle", "loop", "done", "aborted"}
  /\ it \in 1..(MaxTests + 1)
  /\ err \in BOOLEAN /\ ret \in BOOLEAN
  /\ ranBefore \in BOOLEAN /\ started \in BOOLEAN
  /\ addedAfter \in 0..Len(data)

\* ------------------------------------------------- claims

\* C1: the record list has one record per add() call, in the order of the
\* calls, each with the procedure and name it was registered with; run()
\* invokes the procedures in that order, each at most once, and by the time
\* it returns all of those registered before its loop was left.
C1_RegistrationOrder ==
  /\ Len(data) = Len(added)
  /\ \A i \in 1..Len(data) :
       data[i].func = added[i].func /\ data[i].name = added[i].name
  /\ Len(log) <= Len(added)
  /\ \A k \in 1..Len(log) : log[k].test = k /\ log[k].func = added[k].func
  /\ pc = "done" => Len(log) = Len(added) - addedAfter

\* C1 witness: a run completed over two registrations with the same procedure
\* and the same name, and both records are there.
C1_Witness ==
  /\ pc = "done"
  /\ Len(data) = 2
  /\ data[1].func = data[2].func
  /\ data[1].name = data[2].name

\* C2: when run() returns, its value is true if and only if the outcome of
\* some record of the list it ran is failed (a record registered after the
\* loop was left is not of that list).
C2_AggregateFail ==
  pc = "done" => (ret <=> \E i \in 1..(Len(data) - addedAfter) : ~data[i].passed)

\* C2 witness: run() returned true over a list with a passed and a failed test.
C2_Witness ==
  /\ pc = "done"
  /\ ret
  /\ \E i, j \in 1..Len(data) : data[i].passed /\ ~data[j].passed

\* C3: as documented on run(), the value run() returns is true if all the
\* registered tests passed and false if not.
C3_ReturnsTrueIffAllPassed ==
  (pc = "done" /\ Len(data) > 0 /\ addedAfter = 0) =>
    (ret <=> \A i \in 1..Len(data) : data[i].passed)

\* C4: an invocation whose body returns or whose first signal is Passed
\* records passed, one whose first signal is Failed records failed, whatever
\* follows the first signal in the body; and the invocation changes no other
\* record.
C4_OutcomePerTest ==
  [][ (pc = "loop" /\ Len(log') = Len(log) + 1) =>
        LET k == it
            c == log'[Len(log')].cond
            body == data[k].func
            OpThrows(op) == op \in {"pass", "fail", "throw"} \/ (op = "assert" /\ ~c)
            Throws(s) ==
              IF s.op = "assert_exception"
              THEN \E j \in 1..Len(s.func) : OpThrows(s.func[j])
              ELSE OpThrows(s.op)
            raising == {i \in 1..Len(body) : Throws(body[i])}
            first == CHOOSE i \in raising : \A j \in raising : i <= j
        IN  /\ Len(data') = Len(data)
            /\ \A i \in 1..Len(data) : i # k => data'[i] = data[i]
            /\ raising = {} => data'[k].passed
            /\ (raising # {} /\ body[first].op = "pass") => data'[k].passed
            /\ (raising # {} /\ body[first].op \in {"fail", "assert", "assert_exception"})
                 => ~data'[k].passed
    ]_vars

\* C4 witness: a body that calls pass() before fail() is recorded as passed,
\* next to a test recorded as failed.
C4_Witness ==
  /\ pc = "done"
  /\ \E k, j \in 1..Len(log) :
       /\ log[k].func = testPassFail
       /\ log[k].reached = 1
       /\ data[k].passed
       /\ ~data[j].passed

\* C5: a Passed or Failed signal ends only the test that raised it: the loop
\* goes on with the next registered test, every test is invoked once and in
\* registration order, and run() returns only after all those registered
\* before its loop was left were invoked.
C5_SignalEndsOnlyItsTest ==
  /\ \A k \in 1..Len(log) : log[k].test = k
  /\ pc = "loop" => it = Len(log) + 1
  /\ (pc = "aborted" /\ log # <<>> /\ Len(log) < Len(data) - addedAfter)
       => log[Len(log)].out = OtherException
  /\ pc = "done" => Len(log) = Len(data) - addedAfter

\* C5 witness: run() returned after a first test that raised Failed and a
\* second test that raised Passed.
C5_Witness ==
  /\ pc = "done"
  /\ Len(log) = 2
  /\ log[1].out = TestFailedException
  /\ log[2].out = TestPassedException

\* C6: every invocation of run() that invoked a test body has invoked
\* cleanup() exactly once when it ends, whatever way each body ended.
C6_CleanupNeverSkipped ==
  (pc \in {"done", "aborted"} /\ log # <<>>) => cleanupCalls = 1

\* C7: every invocation of run() invokes setup() exactly once, before any
\* test body of that run, also when run() is invoked again.
C7_SetupOnceBeforeTests ==
  /\ pc \in {"loop", "done", "aborted"} => setupCalls = 1
  /\ \A k \in 1..Len(log) : log[k].setups = 1

\* C7 witness: a second run() is inside its loop and has invoked a body.
C7_Witness ==
  /\ ranBefore
  /\ pc = "loop"
  /\ log # <<>>

\* C8: after run(), every record's duration is the elapsed time of that
\* test's invocation in that run, however the body ended.
C8_DurationOfEveryTest ==
  pc = "done" => \A k \in 1..Len(log) : data[k].time = log[k].elapsed

\* C9: after a repeated run() there is one record per registered test, and
\* every record's outcome and duration are those of the most recent run.
C9_RerunOverwrites ==
  (pc = "done" /\ ranBefore) =>
    /\ Len(data) = Len(added)
    /\ \A k \in 1..Len(log) :
         /\ data[k].passed = (log[k].out # TestFailedException)
         /\ data[k].time = log[k].elapsed

\* C10: assert_exception(func) invokes func once; it returns, so that the
\* statement after it is reached, if and only if func raises nothing; when
\* func raises anything, the Passed signal included, the call raises Failed
\* and the enclosing test is recorded as failed.
C10_AssertException ==
  \A k \in 1..Len(log) :
    LET body == log[k].func
        c == log[k].cond
    IN  (body # <<>> /\ body[1].op = "assert_exception") =>
          LET f == body[1].func
              fThrows == \E j \in 1..Len(f) :
                           f[j] \in {"pass", "fail", "throw"} \/ (f[j] = "assert" /\ ~c)
          IN  /\ log[k].calls >= 1
              /\ fThrows =>
                   /\ log[k].reached = 1
                   /\ log[k].calls = 1
                   /\ log[k].out = TestFailedException
                   /\ ~data[k].passed
              /\ ~fThrows =>
                   /\ Len(body) >= 2 => log[k].reached >= 2
                   /\ Len(body) = 1 =>
                        /\ log[k].out = Returned
                        /\ log[k].calls = 1
                        /\ data[k].passed

\* C10 witness: a test whose body hands assert_exception a procedure that
\* calls pass() was invoked and is recorded as failed.
C10_Witness ==
  \E k \in 1..Len(log) :
    /\ log[k].func # <<>>
    /\ log[k].func[1] = Stmt("assert_exception", <<"pass">>)
    /\ log[k].out = TestFailedException
    /\ ~data[k].passed

\* C18: an exception other than the two signals leaves run() at the test that
\* threw it: that test is the last one invoked in the run, run() does not
\* return a value, and the records of the tests invoked before it keep the
\* outcomes recorded for them.
C18_FaultLeavesRun ==
  \A k \in 1..Len(log) :
    log[k].out = OtherException =>
      /\ k = Len(log)
      /\ pc = "aborted"
      /\ \A j \in 1..(k - 1) :
           data[j].passed = (log[j].out # TestFailedException)

\* C18 witness: the first of two registered tests threw another exception;
\* run() was left and the second test was not invoked.
C18_Witness ==
  /\ pc = "aborted"
  /\ Len(data) = 2
  /\ Len(log) = 1
  /\ log[1].out = OtherException

\* C19: add() appends one record with the given procedure and name, outcome
\* failed and duration 0, changes no existing record and nothing else of the
\* test case; and until run() is first invoked every record has outcome
\* failed and duration 0.
C19_AddAppendsOne ==
  [][ /\ Len(added') = Len(added) + 1 =>
           /\ Len(data') = Len(data) + 1
           /\ SubSeq(data', 1, Len(data)) = data
           /\ data'[Len(data')] = [func |-> added'[Len(added')].func,
                                   name |-> added'[Len(added')].name,
                                   passed |-> FALSE, time |-> 0]
           /\ UNCHANGED <<pc, it, err, ret, log, setupCalls, cleanupCalls>>
      /\ ~started' =>
           \A i \in 1..Len(data') : ~data'[i].passed /\ data'[i].time = 0
    ]_vars

\* C19 witness: a record was added, under a name already in use, after a run
\* that left the first record passed with a measured duration.
C19_Witness ==
  /\ pc = "done"
  /\ addedAfter = 1
  /\ Len(data) = 2
  /\ data[1].name = data[2].name
  /\ data[1].passed /\ data[1].time > 0
  /\ ~data[2].passed /\ data[2].time = 0

\* C11: assert_array_equals raises Failed if and only if the lengths differ
\* or some pair of elements below len_a differs; otherwise it returns; it
\* never raises Passed; and when the lengths differ no element was compared.
C11_ArrayEquals ==
  (call.fn = "array_equals" /\ call.out # "pending") =>
    /\ call.out \in {Returned, TestFailedException}
    /\ call.out = TestFailedException <=>
         \/ call.len_a # call.len_b
         \/ \E i \in 1..call.len_a : call.a[i] # call.b[i]
    /\ call.len_a # call.len_b => call.compared = 0

\* C11 witness: two arrays of the same length that differ only in the last
\* element were compared, and the call raised Failed.
C11_Witness ==
  /\ call.fn = "array_equals"
  /\ call.out = TestFailedException
  /\ call.len_a = 2 /\ call.len_b = 2
  /\ call.a[1] = call.b[1]
  /\ call.a[2] # call.b[2]

\* C12: assert_array_subdomain raises Failed if and only if one of the first
\* len elements is less than min or greater than max; elements equal to min
\* or to max, and an empty array, are accepted.
C12_ArraySubdomain ==
  (call.fn = "array_subdomain" /\ call.out # "pending") =>
    /\ call.out \in {Returned, TestFailedException}
    /\ call.out = TestFailedException <=>
         \E i \in 1..call.len_a : call.a[i] < call.min \/ call.a[i] > call.max

\* C12 witness: an array whose elements are min and max was accepted.
C12_Witness ==
  /\ call.fn = "array_subdomain"
  /\ call.out = Returned
  /\ call.len_a = 2
  /\ call.min < call.max
  /\ call.a[1] = call.min
  /\ call.a[2] = call.max

\* C13: what an XML stream exporter wrote starts with the prologue and the
\* <test-results> opening tag, each written once; the closing tag is absent
\* while the exporter lives and, once it is destroyed, in whatever way, is
\* there once and last, however many batches were exported.
C13_XmlRootOnce ==
  exporter.kind = "xml" =>
    LET Count(k) == Cardinality({i \in 1..Len(sink) : sink[i].kind = k})
    IN  /\ Count("xml-prologue") = 1
        /\ Count("root-open") = 1
        /\ sink[1].kind = "xml-prologue"
        /\ sink[2].kind = "root-open"
        /\ exporter.alive => Count("root-close") = 0
        /\ ~exporter.alive =>
             Count("root-close") = 1 /\ sink[Len(sink)].kind = "root-close"

\* C14: every export_results call on an XML exporter, stream or file variant,
\* on the concrete class or through ResultExporter, writes a <test-case>
\* opening line, one <test/> element per record in record order, and a
\* </test-case> closing line.
C14_XmlBatchFramed ==
  (exporter.kind \in XmlKinds /\ exporter.open /\ lastOp.op = "export_results") =>
    SubSeq(sink, lastOp.start + 1, Len(sink)) =
      <<[kind |-> "case-open", result |-> "", duration |-> <<>>, name |-> ""]>>
      \o [i \in 1..Len(data) |->
            [kind |-> "test",
             result |-> IF data[i].passed THEN "passed" ELSE "failed",
             duration |-> IF exporter.export_time THEN <<data[i].time>> ELSE <<>>,
             name |-> data[i].name]]
      \o <<[kind |-> "case-close", result |-> "", duration |-> <<>>, name |-> ""]>>

\* C15: every line a text exporter wrote has exactly one duration field when
\* the exporter was constructed with export_time = true and none when it was
\* constructed with export_time = false.
C15_DurationFlag ==
  exporter.kind \in TextKinds =>
    \A i \in 1..Len(sink) :
      /\ sink[i].kind = "text"
      /\ Len(sink[i].duration) = (IF exporter.export_time THEN 1 ELSE 0)

\* C15 witness: a text exporter constructed with export_time = true wrote a
\* line for a passed and a line for a failed record, each with a duration.
C15_Witness ==
  /\ exporter.kind \in TextKinds
  /\ exporter.export_time
  /\ \E i, j \in 1..Len(sink) :
       /\ sink[i].result = ENKI_STR_PASSED(exporter.nocolors)
       /\ Len(sink[i].duration) = 1
       /\ sink[j].result = ENKI_STR_FAILED(exporter.nocolors)
       /\ Len(sink[j].duration) = 1

\* C16: an export_results call on a text exporter calls export_result once
\* per record and appends one line per record, in the order of the record
\* list, with the record's name and the build's ENKI_STR_PASSED token exactly
\* for passed records; it changes no record.
C16_DefaultExportResults ==
  [][ (/\ exporter.kind \in TextKinds
       /\ exporter.open
       /\ exporter'.ops = exporter.ops + 1
       /\ lastOp'.op = "export_results") =>
        /\ Len(sink') = Len(sink) + Len(data)
        /\ SubSeq(sink', 1, Len(sink)) = sink
        /\ \A i \in 1..Len(data) :
             /\ sink'[Len(sink) + i].kind = "text"
             /\ sink'[Len(sink) + i].name = data[i].name
             /\ sink'[Len(sink) + i].result = ENKI_STR_PASSED(exporter.nocolors)
                  <=> data[i].passed
             /\ sink'[Len(sink) + i].result \in
                  {ENKI_STR_PASSED(exporter.nocolors), ENKI_STR_FAILED(exporter.nocolors)}
        /\ lastOp'.calls = Len(data)
        /\ data' = data
    ]_vars

\* C16 witness: a text exporter exported a list of a passed and a failed
\* record under different names.
C16_Witness ==
  /\ exporter.kind \in TextKinds
  /\ lastOp.op = "export_results"
  /\ Len(data) = 2
  /\ data[1].passed # data[2].passed
  /\ data[1].name # data[2].name
  /\ Len(sink) >= 2

\* C17: an export call on a file exporter whose file could not be opened
\* does not complete as if it had succeeded.
C17_SinkErrorSurfaces ==
  (/\ exporter.kind \in FileKinds
   /\ ~exporter.open
   /\ lastOp.op \in {"export_results", "export_result"}) =>
    lastOp.out # Returned
====
